---------------------------- MODULE Spec2Model ----------------------------
(***************************************************************************)
(* A model of package equity (src/equity/equity.go): the hand comparator   *)
(* evalHands, the range expander HandDist.Strs, the hole-card probability  *)
(* PHole, the equity simulator HandEquity in its exhaustive and            *)
(* Monte-Carlo modes, and the parallel aggregator HandEquity2.             *)
(*                                                                         *)
(* Conventions.                                                            *)
(*  - A Go slice is a TLA+ sequence; Go index k is TLA+ index k + 1.       *)
(*  - A float64 that the code builds as a quotient of two small integers  *)
(*    is the pair <<numerator, denominator>>.                              *)
(*  - A card string such as "Ah" is the pair <<"A", "h">>; a HandDist      *)
(*    string such as "AKs" is the sequence <<"A", "K", "s">>.              *)
(*  - The ranking table hr is read from HandRanks.dat at start-up; its     *)
(*    contents are not part of the source, so the values evalHand reads    *)
(*    from it are inputs of the model.                                     *)
(***************************************************************************)
EXTENDS Integers, Sequences, FiniteSets, TLC

VARIABLES
    \* evalHands
    vals, result, epc,
    \* HandDist.Strs and PHole
    hd, hands, dpc, scards, pres, ppc,
    \* HandEquity (one call)
    sHand, sBoard, hole, bLen, board, deck, trialsHE, iHE, lastEval, evals, count,
    oHole, c1, c2, loop1, loop2, hpc,
    \* HandEquity2
    trials, NCPU, adj, aggPc, aggI, aggSum, ret, wpc, wn, wi, wsum, sent

varsEval == <<vals, result, epc>>
varsDist == <<hd, hands, dpc, scards, pres, ppc>>
varsHE   == <<sHand, sBoard, hole, bLen, board, deck, trialsHE, iHE, lastEval, evals, count,
              oHole, c1, c2, loop1, loop2, hpc>>
varsPar  == <<trials, NCPU, adj, aggPc, aggI, aggSum, ret, wpc, wn, wi, wsum, sent>>
vars     == <<varsEval, varsDist, varsHE, varsPar>>

(***************************************************************************)
(* Bounds of the model.                                                    *)
(***************************************************************************)
\* Largest rank value evalHand yields in the comparator's inputs.
MaxRankVal == 3
\* Largest number of hands passed to evalHands.
MaxHands == 4
\* Number of cards of the deck NewDeck builds (the program's deck has 52).
NumCards == 9
\* Largest number of board cards to draw (5 - len(sBoard)) with which
\* HandEquity is run for more than one Monte-Carlo trial.
MaxDraw == 2
\* Largest trial count passed to one HandEquity call.
MaxTrialsHE == 2
\* Largest trial count requested from HandEquity2.
MaxTrials == 5
\* Largest number of CPUs (workers) of HandEquity2.
MaxCPU == 3
\* Number of ranks (from "2" upwards) PHole's range tokens are drawn from.
MaxTokenRanks == 3

(***************************************************************************)
(* Program constants.                                                      *)
(***************************************************************************)
ranks == <<"2", "3", "4", "5", "6", "7", "8", "9", "T", "J", "Q", "K", "A">>
suits == <<"c", "d", "h", "s">>
\* len(board) in HandEquity.
BoardLen == 5

Idx(seq, x) == CHOOSE k \in 1..Len(seq) : seq[k] = x
Range(seq) == {seq[k] : k \in 1..Len(seq)}
IsInj(seq) == \A a, b \in 1..Len(seq) : a # b => seq[a] # seq[b]

\* CTOI as init() fills it: rank-major, suit-minor, from 1.
CTOI(c) == (Idx(ranks, c[1]) - 1) * Len(suits) + (Idx(suits, c[2]) - 1) + 1

cardsToInts(cards) == [k \in 1..Len(cards) |-> CTOI(cards[k])]

(***************************************************************************)
(* uint32 arithmetic. A uint32 is held as <<high 16 bits, low 16 bits>>;   *)
(* subtraction wraps modulo 2^32.                                          *)
(***************************************************************************)
Limb == 65536
U32(n) == <<n \div Limb, n % Limb>>
Sub32(a, b) ==
    LET lo     == a[2] - b[2]
        borrow == IF lo < 0 THEN 1 ELSE 0
        hi     == a[1] - b[1] - borrow
    IN  <<(hi + Limb) % Limb, (lo + Limb) % Limb>>
\* result > 0 and result < 0 for a uint32 result.
Gt0U32(x) == x[1] > 0 \/ x[2] > 0
Lt0U32(x) == FALSE

(***************************************************************************)
(* evalHands. v is the sequence of the hands' ranks, v[k] being what       *)
(* evalHand(b, hands[k-1]) reads from hr.                                  *)
(***************************************************************************)
One  == <<1, 1>>
Zero == <<0, 1>>
Half == <<1, 2>>

\* The two-hand fast path, lines 199-209.
evalTwoHands(v) ==
    LET res == Sub32(U32(v[1]), U32(v[2]))
    IN  IF Gt0U32(res) THEN <<One, Zero>>
        ELSE IF Lt0U32(res) THEN <<Zero, One>>
        ELSE <<Half, Half>>

\* WinnerStep without line 220: it keeps the count when a higher rank shows up.
WinnerStepNoReset(st, v) ==
    IF v > st.max THEN [max |-> v, winners |-> st.winners]
    ELSE IF v = st.max THEN [max |-> st.max, winners |-> st.winners + 1]
    ELSE st

\* One iteration of the loop of lines 217-224.
WinnerStep(st, v) ==
    IF v > st.max THEN [max |-> v, winners |-> 1]
    ELSE IF v = st.max THEN [max |-> st.max, winners |-> st.winners + 1]
    ELSE st

RECURSIVE WinnerScan(_, _, _)
WinnerScan(st, v, k) ==
    IF k > Len(v) THEN st ELSE WinnerScan(WinnerStep(st, v[k]), v, k + 1)

\* The general path, lines 210-234.
evalManyHands(v) ==
    LET st == WinnerScan([max |-> v[1], winners |-> 1], v, 2)
    IN  [k \in 1..Len(v) |-> IF v[k] = st.max THEN <<1, st.winners>> ELSE Zero]

evalHands(v) == IF Len(v) = 2 THEN evalTwoHands(v) ELSE evalManyHands(v)


(***************************************************************************)
(* Decks and sets of cards.                                                *)
(***************************************************************************)
RECURSIVE minusFrom(_, _, _)
minusFrom(a, b, k) ==
    IF k > Len(a) THEN <<>>
    ELSE IF \E m \in 1..Len(b) : a[k] = b[m] THEN minusFrom(a, b, k + 1)
    ELSE <<a[k]>> \o minusFrom(a, b, k + 1)

\* minus: the elements of a, in order, that equal no element of b.
minus(a, b) == minusFrom(a, b, 1)

\* NewDeck, lines 82-91, over a deck of NumCards cards.
NewDeck(missing) ==
    LET full == [k \in 1..NumCards |-> k]
    IN  IF Len(missing) > 0 THEN minus(full, missing) ELSE full

\* The array behind a deck: minus allocates len(a) zeroed elements and returns
\* c[:count], so the capacity stays that of the full deck.
Backing(dk) == [k \in 1..NumCards |-> IF k <= Len(dk) THEN dk[k] ELSE 0]

\* a[lo:hi] for a deck: it may reach beyond len(a), up to cap(a).
DeckSlice(dk, lo, hi) == SubSeq(Backing(dk), lo + 1, hi)

\* copy(dst[from:], src): min(len(dst) - from, len(src)) elements are copied.
CopyAt(dst, from, src) ==
    [k \in 1..Len(dst) |->
        IF k > from /\ k - from <= Len(src) THEN src[k - from] ELSE dst[k]]

\* Swap as the plain assignment a[j] = a[i]: a[j] is lost.
SwapOverwrite(a, j, i) == [a EXCEPT ![j] = a[i]]

\* a[j], a[i] = a[i], a[j] (indices from 1).
Swap(a, j, i) == [a EXCEPT ![j] = a[i], ![i] = a[j]]

\* shuffle, lines 363-368: the decks the loop can leave, over every value
\* rand.Intn(i + 1) can return in each iteration; i is the Go index.
RECURSIVE ShuffleFrom(_, _)
ShuffleFrom(a, i) ==
    IF i <= 0 THEN {a}
    ELSE UNION {ShuffleFrom(Swap(a, j + 1, i + 1), i - 1) : j \in 0..i}

shuffle(a) == ShuffleFrom(a, Len(a) - 1)

(***************************************************************************)
(* Package comb (imported at line 32), by its contract: comb.Count(n, 2)   *)
(* is the number of 2-combinations of n items, and comb.Generator(set, k)  *)
(* hands out the k-combinations of set one per call, each exactly once;    *)
(* a call fills the caller's buffer and returns whether more remain, which *)
(* is how the loops of HandEquity (lines 392-396) use it.                  *)
(***************************************************************************)
CombCount2(n) == (n * (n - 1)) \div 2

RECURSIVE Combs(_, _)
Combs(items, k) ==
    IF k = 0 THEN << <<>> >>
    ELSE IF Len(items) < k THEN <<>>
    ELSE LET with    == Combs(Tail(items), k - 1)
             without == Combs(Tail(items), k)
         IN  [m \in 1..Len(with) |-> <<Head(items)>> \o with[m]] \o without

Generator(items, k) == [combs |-> Combs(items, k), pos |-> 0]

\* One call g(buf): the buffer after the call, the value returned, the
\* generator after the call.
GenCall(g, buf) ==
    IF g.pos < Len(g.combs)
    THEN [buf  |-> g.combs[g.pos + 1],
          more |-> g.pos + 1 < Len(g.combs),
          gen  |-> [g EXCEPT !.pos = g.pos + 1]]
    ELSE [buf |-> buf, more |-> FALSE, gen |-> g]

(***************************************************************************)
(* HandDist.Strs and HandDist.Ints.                                        *)
(***************************************************************************)
SuitIdx == 1..Len(suits)
xsOf(d) == [k \in SuitIdx |-> <<d[1], suits[k]>>]
ysOf(d) == [k \in SuitIdx |-> <<d[2], suits[k]>>]

\* The (i, j) pairs the nested loops over the suits visit, in loop order.
LoopPairs ==
    [m \in 1..(Len(suits) * Len(suits)) |->
        <<((m - 1) \div Len(suits)) + 1, ((m - 1) % Len(suits)) + 1>>]

\* pairs, lines 120-124: i in 0..2, j in i+1..3.
PairHands(xs) ==
    LET ij == SelectSeq(LoopPairs, LAMBDA p : p[1] < p[2])
    IN  [m \in 1..Len(ij) |-> <<xs[ij[m][1]], xs[ij[m][2]]>>]

\* OffsuitHands without the test i != j of line 129.
OffsuitHandsAll(xs, ys) ==
    LET ij == LoopPairs
    IN  [m \in 1..Len(ij) |-> <<xs[ij[m][1]], ys[ij[m][2]]>>]

\* offsuit, lines 127-133.
OffsuitHands(xs, ys) ==
    LET ij == SelectSeq(LoopPairs, LAMBDA p : p[1] # p[2])
    IN  [m \in 1..Len(ij) |-> <<xs[ij[m][1]], ys[ij[m][2]]>>]

\* suited, lines 136-138.
SuitedHands(xs, ys) == [k \in SuitIdx |-> <<xs[k], ys[k]>>]

Strs(d) ==
    IF Len(d) = 2 THEN PairHands(xsOf(d))
    ELSE IF d[3] = "o" THEN OffsuitHands(xsOf(d), ysOf(d))
    ELSE SuitedHands(xsOf(d), ysOf(d))

Ints(d) == LET sh == Strs(d) IN [k \in 1..Len(sh) |-> cardsToInts(sh[k])]

(***************************************************************************)
(* PHole. A Go run-time panic (index out of range) is the value "panic";   *)
(* the float64 0/0 is "NaN".                                               *)
(***************************************************************************)
\* allHands as lines 247-253 leave it: make([][]uint32, combs) holds combs nil
\* slices, and copy(allHands[i], hand) copies min(len(nil), len(hand)) = 0
\* elements into each.
CopyInto(dst, src) ==
    [k \in 1..Len(dst) |-> IF k <= Len(src) THEN src[k] ELSE dst[k]]

allHandsOf(dk) ==
    LET combs == CombCount2(Len(dk))
        all   == Combs(dk, 2)
    IN  [k \in 1..combs |-> CopyInto(<<>>, all[k])]

\* The scan of b for one v in intersect, lines 352-358: "match", "none", or
\* "panic" when w[0] or w[1] is read beyond len(w).
RECURSIVE scanFor(_, _, _)
scanFor(v, b, k) ==
    IF k > Len(b) THEN "none"
    ELSE LET w == b[k] IN
         IF Len(w) < 1 THEN "panic"
         ELSE IF v[1] = w[1]
              THEN (IF Len(w) < 2 THEN "panic"
                    ELSE IF v[2] = w[2] THEN "match"
                    ELSE IF v[1] = w[2] /\ v[2] = w[1] THEN "match"
                    ELSE scanFor(v, b, k + 1))
              ELSE (IF Len(w) < 2 THEN "panic"
                    ELSE IF v[1] = w[2] /\ v[2] = w[1] THEN "match"
                    ELSE scanFor(v, b, k + 1))

\* intersect, lines 348-361: c[:count], or a panic raised by the scan.
RECURSIVE intersectFrom(_, _, _)
intersectFrom(a, b, k) ==
    IF k > Len(a) THEN [panic |-> FALSE, c |-> <<>>]
    ELSE LET r == scanFor(a[k], b, 1) IN
         IF r = "panic" THEN [panic |-> TRUE, c |-> <<>>]
         ELSE LET rest == intersectFrom(a, b, k + 1) IN
              IF rest.panic THEN rest
              ELSE IF r = "match" THEN [rest EXCEPT !.c = <<a[k]>> \o rest.c]
              ELSE rest

intersect(a, b) == intersectFrom(a, b, 1)

\* PHole, lines 238-256. kind is "value" (num/den), "NaN" (the float64 0/0)
\* or "panic".
PHole(sc, d) ==
    LET cards    == cardsToInts(sc)
        dk       == NewDeck(cards)
        allHands == allHandsOf(dk)
        hs       == Ints(d)
        common   == intersect(hs, allHands)
    IN  IF common.panic THEN [kind |-> "panic", num |-> 0, den |-> 0]
        ELSE IF Len(allHands) = 0 THEN [kind |-> "NaN", num |-> 0, den |-> 0]
        ELSE [kind |-> "value", num |-> Len(common.c), den |-> Len(allHands)]

(***************************************************************************)
(* Inputs.                                                                 *)
(***************************************************************************)
Cards == 1..NumCards
\* The card string of a card number (the inverse of CTOI).
ItoC(c) == <<ranks[((c - 1) \div Len(suits)) + 1], suits[((c - 1) % Len(suits)) + 1]>>

RankChars(n) == {ranks[k] : k \in 1..n}
TokensOver(rs) ==
    {<<r, r>> : r \in rs}
    \cup {<<r[1], r[2], x>> : r \in {q \in rs \X rs : q[1] # q[2]}, x \in {"o", "s"}}

IsPairToken(d)    == Len(d) = 2 /\ d[1] = d[2]
IsOffsuitToken(d) == Len(d) = 3 /\ d[1] # d[2] /\ d[3] = "o"
IsSuitedToken(d)  == Len(d) = 3 /\ d[1] # d[2] /\ d[3] = "s"

\* The visible cards PHole is called with: the first k or the last k cards of
\* the deck.
AllCardStrs == [c \in Cards |-> ItoC(c)]
VisibleChoices ==
    {SubSeq(AllCardStrs, 1, k) : k \in 0..NumCards}
    \cup {SubSeq(AllCardStrs, k, NumCards) : k \in 1..NumCards}

IdleEval == vals = <<>> /\ result = <<>> /\ epc = "idle"
IdleDist == /\ hd = <<>> /\ hands = <<>> /\ dpc = "idle"
            /\ scards = <<>> /\ pres = [kind |-> "none", num |-> 0, den |-> 0]
            /\ ppc = "idle"
IdleHE   == /\ sHand = <<>> /\ sBoard = <<>>
            /\ hole = <<>> /\ bLen = 0 /\ board = <<>> /\ deck = <<>>
            /\ trialsHE = 0 /\ iHE = 0 /\ lastEval = <<>> /\ evals = <<>> /\ count = 0
            /\ oHole = <<>> /\ c1 = Generator(<<>>, 0) /\ c2 = Generator(<<>>, 0)
            /\ loop1 = FALSE /\ loop2 = FALSE /\ hpc = "idle"
IdlePar  == /\ trials = 0 /\ NCPU = 1 /\ adj = 0 /\ aggPc = "idle" /\ aggI = 0
            /\ aggSum = 0 /\ ret = <<0, 1>>
            /\ wpc = <<>> /\ wn = <<>> /\ wi = <<>> /\ wsum = <<>> /\ sent = <<>>

(***************************************************************************)
(* evalHands called on the ranks of 1..MaxHands hands.                     *)
(***************************************************************************)
InitEval ==
    /\ vals \in UNION {[1..n -> 0..MaxRankVal] : n \in 1..MaxHands}
    /\ result = <<>>
    /\ epc = "call"
    /\ IdleDist /\ IdleHE /\ IdlePar

CallEvalHands ==
    /\ epc = "call"
    /\ result' = evalHands(vals)
    /\ epc' = "done"
    /\ UNCHANGED <<vals, varsDist, varsHE, varsPar>>

NextEval == CallEvalHands
SpecEval == InitEval /\ [][NextEval]_vars

(***************************************************************************)
(* HandDist.Strs called on every pair, offsuit and suited token.           *)
(***************************************************************************)
InitDist ==
    /\ hd \in TokensOver(RankChars(Len(ranks)))
    /\ hands = <<>>
    /\ dpc = "call"
    /\ scards = <<>> /\ pres = [kind |-> "none", num |-> 0, den |-> 0] /\ ppc = "idle"
    /\ IdleEval /\ IdleHE /\ IdlePar

CallStrs ==
    /\ dpc = "call"
    /\ hands' = Strs(hd)
    /\ dpc' = "done"
    /\ UNCHANGED <<hd, scards, pres, ppc, varsEval, varsHE, varsPar>>

NextDist == CallStrs
SpecDist == InitDist /\ [][NextDist]_vars

(***************************************************************************)
(* PHole called on some visible cards and a token.                         *)
(***************************************************************************)
InitPHole ==
    /\ hd \in TokensOver(RankChars(MaxTokenRanks))
    /\ scards \in VisibleChoices
    /\ pres = [kind |-> "none", num |-> 0, den |-> 0]
    /\ ppc = "call"
    /\ hands = <<>> /\ dpc = "idle"
    /\ IdleEval /\ IdleHE /\ IdlePar

CallPHole ==
    /\ ppc = "call"
    /\ pres' = PHole(scards, hd)
    /\ ppc' = "done"
    /\ UNCHANGED <<hd, scards, hands, dpc, varsEval, varsHE, varsPar>>

NextPHole == CallPHole
SpecPHole == InitPHole /\ [][NextPHole]_vars

(***************************************************************************)
(* Claims about evalHands.                                                 *)
(***************************************************************************)
MaxOf(S) == CHOOSE x \in S : \A y \in S : y <= x

\* C1: for two hands evalHands returns [1,0] when the first hand's rank is
\* strictly greater, [0,1] when it is strictly less, and [0.5,0.5] when the
\* ranks are equal.
C1_TwoHandsCompare ==
    (epc = "done" /\ Len(vals) = 2) =>
        result = IF vals[1] > vals[2] THEN <<One, Zero>>
                 ELSE IF vals[1] < vals[2] THEN <<Zero, One>>
                 ELSE <<Half, Half>>

\* C8: on the general path (1 hand or at least 3 hands) a hand's share is 1/W
\* if its rank is the maximum and 0 otherwise, W being the number of hands
\* with the maximum rank, 1 <= W <= N; the shares sum to 1.
C8_GeneralPathShares ==
    (epc = "done" /\ Len(vals) # 2) =>
        LET N  == Len(vals)
            mx == MaxOf(Range(vals))
            W  == Cardinality({k \in 1..N : vals[k] = mx})
            topShares == {k \in 1..N : result[k] = <<1, W>>}
        IN  /\ W \in 1..N
            /\ Len(result) = N
            /\ \A k \in 1..N : result[k] = IF vals[k] = mx THEN <<1, W>> ELSE <<0, 1>>
            \* W shares of 1/W and N - W shares of 0 add up to 1.
            /\ Cardinality(topShares) = W
            /\ \A k \in (1..N) \ topShares : result[k][1] = 0

\* Three hands, the first two tied below the third: the winner count is reset.
C8_Witness ==
    /\ epc = "done"
    /\ Len(vals) = 3
    /\ vals[1] = vals[2] /\ vals[2] < vals[3]
    /\ result = <<Zero, Zero, One>>

(***************************************************************************)
(* Claims about HandDist.Strs.                                             *)
(***************************************************************************)
\* A hand as the unordered pair of its cards.
AsSet(h) == {h[1], h[2]}

\* C9: Strs returns exactly 6 hands for a pair token, 12 for an offsuit token
\* and 4 for a suited token; no hand occurs twice as an unordered pair of
\* cards, and every hand consists of two distinct cards.
C9_StrsCardinality ==
    dpc = "done" =>
        /\ IsPairToken(hd)    => Len(hands) = 6
        /\ IsOffsuitToken(hd) => Len(hands) = 12
        /\ IsSuitedToken(hd)  => Len(hands) = 4
        /\ \A a, b \in 1..Len(hands) : a # b => AsSet(hands[a]) # AsSet(hands[b])
        /\ \A a \in 1..Len(hands) : Len(hands[a]) = 2 /\ hands[a][1] # hands[a][2]

\* T9o has been expanded into its 12 hands.
C9_Witness ==
    /\ dpc = "done"
    /\ hd = <<"T", "9", "o">>
    /\ Len(hands) = 12
    /\ hands[1] = << <<"T", "c">>, <<"9", "d">> >>

(***************************************************************************)
(* Claims about PHole.                                                     *)
(***************************************************************************)
\* The cards left in the deck once the visible cards are removed.
Remaining == Cards \ Range(cardsToInts(scards))
\* The hands of the token's expansion with both cards left in the deck.
MatchingHands ==
    LET hs == Ints(hd)
    IN  {k \in 1..Len(hs) : hs[k][1] \in Remaining /\ hs[k][2] \in Remaining}

\* C6: with at least 2 cards left in the deck, PHole returns
\* matchCount / allHandsCount: the number of hands of the token's expansion
\* with both cards left in the deck, over the number of 2-card combinations of
\* the cards left.
C6_PHoleRatio ==
    (ppc = "done" /\ Cardinality(Remaining) >= 2) =>
        /\ pres.kind = "value"
        /\ pres.num = Cardinality(MatchingHands)
        /\ pres.den = CombCount2(Cardinality(Remaining))

\* C7: with fewer than 2 cards left in the deck, PHole signals an error and
\* returns no number.
C7_PHoleTooFewCards ==
    (ppc = "done" /\ Cardinality(Remaining) < 2) =>
        pres.kind \notin {"value", "NaN"}


(***************************************************************************)
(* HandEquity: one call, exhaustive (trials = 0) or Monte-Carlo.           *)
(* The equity sum is a function of the arguments evalHands is called with  *)
(* and of the table hr: the model records the arguments.                   *)
(***************************************************************************)
\* The hole cards and the boards HandEquity is called with.
HoleChoices == {<<ItoC(1), ItoC(2)>>, <<ItoC(NumCards), ItoC(1)>>}
BoardLens == 0..BoardLen
\* The trial counts: exhaustive, one trial, and MaxTrialsHE trials for one of the
\* holes on the boards that leave at most MaxDraw cards to draw.
TrialChoices(h, b) ==
    {0, 1} \cup (IF h = <<ItoC(NumCards), ItoC(1)>> /\ BoardLen - Len(b) <= MaxDraw
                 THEN {MaxTrialsHE} ELSE {})
BoardChoices(h) ==
    LET rest == minus([k \in 1..NumCards |-> k], cardsToInts(h))
    IN  {[k \in 1..n |-> ItoC(rest[k])] : n \in BoardLens}

InitHE ==
    /\ sHand \in HoleChoices
    /\ sBoard \in BoardChoices(sHand)
    /\ trialsHE \in TrialChoices(sHand, sBoard)
    /\ hole = <<>> /\ bLen = 0 /\ board = <<>> /\ deck = <<>>
    /\ iHE = 0 /\ lastEval = <<>> /\ evals = <<>> /\ count = 0
    /\ oHole = <<>> /\ c1 = Generator(<<>>, 0) /\ c2 = Generator(<<>>, 0)
    /\ loop1 = FALSE /\ loop2 = FALSE
    /\ hpc = "call"
    /\ IdleEval /\ IdleDist /\ IdlePar

\* Lines 374-391: the conversions, the deck, and the set-up of either mode.
HEStart ==
    /\ hpc = "call"
    /\ hole' = cardsToInts(sHand)
    /\ bLen' = Len(sBoard)
    /\ board' = [k \in 1..BoardLen |-> IF k <= Len(sBoard) THEN CTOI(sBoard[k]) ELSE 0]
    /\ deck' = NewDeck(hole' \o board')
    /\ IF trialsHE = 0
       THEN /\ oHole' = <<0, 0>>
            /\ loop1' = TRUE /\ loop2' = TRUE
            /\ c1' = Generator(deck', 2)
            /\ hpc' = "outer"
       ELSE /\ UNCHANGED <<oHole, loop1, loop2, c1>>
            /\ hpc' = "mc"
    /\ UNCHANGED <<sHand, sBoard, trialsHE, iHE, lastEval, evals, count, c2>>
    /\ UNCHANGED <<varsEval, varsDist, varsPar>>

\* Lines 392-394: one pass of the outer loop up to the inner loop's test.
ExhOuter ==
    /\ hpc = "outer" /\ loop1
    /\ LET r == GenCall(c1, oHole) IN
         /\ loop1' = r.more
         /\ c1' = r.gen
         /\ oHole' = r.buf
         /\ c2' = Generator(minus(deck, r.buf), BoardLen - bLen)
    /\ hpc' = "inner"
    /\ UNCHANGED <<sHand, sBoard, hole, bLen, board, deck, trialsHE, iHE,
                   lastEval, evals, count, loop2>>
    /\ UNCHANGED <<varsEval, varsDist, varsPar>>

\* Lines 395-399: one pass of the inner loop.
ExhInner ==
    /\ hpc = "inner" /\ loop2
    /\ LET r == GenCall(c2, SubSeq(board, bLen + 1, BoardLen))
           b == CopyAt(board, bLen, r.buf)
       IN  /\ loop2' = r.more
           /\ c2' = r.gen
           /\ board' = b
           /\ lastEval' = [board |-> b, hole |-> hole, opp |-> oHole]
           /\ evals' = Append(evals, [board |-> b, hole |-> hole, opp |-> oHole])
    /\ count' = count + 1
    /\ UNCHANGED <<sHand, sBoard, hole, bLen, deck, trialsHE, iHE, oHole, c1, loop1, hpc>>
    /\ UNCHANGED <<varsEval, varsDist, varsPar>>

\* Line 395 with loop2 false: the inner loop is left (loop2 is not set again).
ExhInnerExit ==
    /\ hpc = "inner" /\ ~loop2
    /\ hpc' = "outer"
    /\ UNCHANGED <<sHand, sBoard, hole, bLen, board, deck, trialsHE, iHE, lastEval,
                   evals, count, oHole, c1, c2, loop1, loop2>>
    /\ UNCHANGED <<varsEval, varsDist, varsPar>>

\* Line 401: c <- sum / count.
ExhSend ==
    /\ hpc = "outer" /\ ~loop1
    /\ hpc' = "done"
    /\ UNCHANGED <<sHand, sBoard, hole, bLen, board, deck, trialsHE, iHE, lastEval,
                   evals, count, oHole, c1, c2, loop1, loop2>>
    /\ UNCHANGED <<varsEval, varsDist, varsPar>>

\* Lines 404-408: one Monte-Carlo trial.
MCTrial ==
    /\ hpc = "mc" /\ iHE < trialsHE
    /\ \E d \in shuffle(deck) :
         LET b == CopyAt(board, bLen, DeckSlice(d, 2, 8 - bLen)) IN
         /\ deck' = d
         /\ board' = b
         /\ lastEval' = [board |-> b, hole |-> hole, opp |-> DeckSlice(d, 0, 2)]
    /\ iHE' = iHE + 1
    /\ UNCHANGED <<sHand, sBoard, hole, bLen, trialsHE, evals, count,
                   oHole, c1, c2, loop1, loop2, hpc>>
    /\ UNCHANGED <<varsEval, varsDist, varsPar>>

\* Line 409: c <- sum / float64(trials).
MCSend ==
    /\ hpc = "mc" /\ iHE >= trialsHE
    /\ hpc' = "done"
    /\ UNCHANGED <<sHand, sBoard, hole, bLen, board, deck, trialsHE, iHE, lastEval,
                   evals, count, oHole, c1, c2, loop1, loop2>>
    /\ UNCHANGED <<varsEval, varsDist, varsPar>>

NextHE ==
    \/ HEStart
    \/ ExhOuter
    \/ ExhInner
    \/ ExhInnerExit
    \/ ExhSend
    \/ MCTrial
    \/ MCSend
SpecHE == InitHE /\ [][NextHE]_vars


(***************************************************************************)
(* Claims about HandEquity.                                                *)
(***************************************************************************)
RECURSIVE Binomial(_, _)
Binomial(n, k) ==
    IF k = 0 THEN 1
    ELSE IF n < k THEN 0
    ELSE Binomial(n - 1, k - 1) + Binomial(n - 1, k)

\* The cards HandEquity is given, and the deck without them.
GivenBoard == cardsToInts(sBoard)
GivenCards == Range(cardsToInts(sHand)) \cup Range(GivenBoard)
DeckCards  == Cards \ GivenCards

\* Every pair (opponent hand, board completion) of the exhaustive mode.
AllDeals ==
    {<<o, c>> \in (SUBSET DeckCards) \X (SUBSET DeckCards) :
        /\ Cardinality(o) = 2
        /\ Cardinality(c) = BoardLen - Len(sBoard)
        /\ o \cap c = {}}
DealOf(e) == <<Range(e.opp), {e.board[k] : k \in (Len(sBoard) + 1)..BoardLen}>>

\* C5: in exhaustive mode HandEquity evaluates evalHands exactly once for
\* every pair (opponent hand, board completion), so the trial counter ends at
\* C(d,2) * C(d-2, 5-b).
C5_ExhaustiveCoversAllDeals ==
    (hpc = "done" /\ trialsHE = 0) =>
        LET d == Cardinality(DeckCards)
            b == Len(sBoard)
        IN  /\ count = Binomial(d, 2) * Binomial(d - 2, BoardLen - b)
            /\ Len(evals) = count
            /\ {DealOf(evals[k]) : k \in 1..Len(evals)} = AllDeals
            /\ \A m, n \in 1..Len(evals) : m # n => DealOf(evals[m]) # DealOf(evals[n])

\* The 9 cards of an evalHands call: 2 hole, 2 opponent, 5 board.
EvalCards(e) == e.hole \o e.opp \o e.board

\* C10: in Monte-Carlo mode, after any number of trials the working deck is a
\* permutation of the deck minus the hole and the given board cards, and in
\* every trial the 9 cards passed to evalHands are pairwise distinct, with the
\* given board cards left unchanged.
C10_MonteCarloDeck ==
    (hpc \in {"mc", "done"} /\ trialsHE > 0) =>
        /\ IsInj(deck)
        /\ Range(deck) = DeckCards
        /\ iHE > 0 =>
            /\ Len(EvalCards(lastEval)) = 9
            /\ IsInj(EvalCards(lastEval))
            /\ Range(EvalCards(lastEval)) \subseteq Cards
            /\ lastEval.hole = cardsToInts(sHand)
            /\ SubSeq(lastEval.board, 1, Len(sBoard)) = GivenBoard
            /\ lastEval.board = board

\* The second trial on a flop has dealt from a deck that is not in order.
C10_Witness ==
    /\ hpc = "mc"
    /\ trialsHE = 2 /\ iHE = 2
    /\ Len(sBoard) = 3
    /\ deck # NewDeck(cardsToInts(sHand) \o GivenBoard)
    /\ lastEval.opp = SubSeq(deck, 1, 2)
    /\ SubSeq(lastEval.board, 4, 5) = SubSeq(deck, 3, 4)

(***************************************************************************)
(* HandEquity2: the aggregator and its NCPU workers on one unbuffered      *)
(* channel. A worker is a HandEquity call; here each of its evalHands      *)
(* results is one of 0, 0.5 and 1, counted in halves.                      *)
(***************************************************************************)
Workers == 1..NCPU
Shares == {0, 1, 2}

InitPar ==
    /\ trials \in 0..MaxTrials
    /\ NCPU \in 1..MaxCPU
    /\ adj = 0
    /\ aggPc = "call" /\ aggI = 0 /\ aggSum = 0 /\ ret = <<0, 1>>
    /\ wpc = [w \in Workers |-> "none"]
    /\ wn = [w \in Workers |-> 0]
    /\ wi = [w \in Workers |-> 0]
    /\ wsum = [w \in Workers |-> 0]
    /\ sent = [w \in Workers |-> 0]
    /\ IdleEval /\ IdleDist /\ IdleHE

\* Line 416: trials += trials % NCPU.
RoundTrials(t, n) == t + (t % n)

\* A collect loop that receives one value fewer.
CollectCountShort == NCPU - 1

\* The number of values the loop of lines 421-423 receives.
CollectCount == NCPU

\* Lines 415-417.
H2Enter ==
    /\ aggPc = "call"
    /\ adj' = RoundTrials(trials, NCPU)
    /\ aggPc' = "spawn"
    /\ UNCHANGED <<trials, NCPU, aggI, aggSum, ret, wpc, wn, wi, wsum, sent>>
    /\ UNCHANGED <<varsEval, varsDist, varsHE>>

\* Lines 418-420: go HandEquity(sHand, sBoard, trials/NCPU, c).
H2Spawn ==
    /\ aggPc = "spawn" /\ aggI < NCPU
    /\ wpc' = [wpc EXCEPT ![aggI + 1] = "run"]
    /\ wn' = [wn EXCEPT ![aggI + 1] = adj \div NCPU]
    /\ aggI' = aggI + 1
    /\ UNCHANGED <<trials, NCPU, adj, aggPc, aggSum, ret, wi, wsum, sent>>
    /\ UNCHANGED <<varsEval, varsDist, varsHE>>

\* Line 418 with i = NCPU: the spawn loop is left for the collect loop.
H2SpawnDone ==
    /\ aggPc = "spawn" /\ aggI >= NCPU
    /\ aggPc' = "collect"
    /\ aggI' = 0
    /\ UNCHANGED <<trials, NCPU, adj, aggSum, ret, wpc, wn, wi, wsum, sent>>
    /\ UNCHANGED <<varsEval, varsDist, varsHE>>

\* A worker's Monte-Carlo trial, lines 404-408.
WorkerTrial(w) ==
    /\ wpc[w] = "run" /\ wn[w] # 0 /\ wi[w] < wn[w]
    /\ \E sh \in Shares : wsum' = [wsum EXCEPT ![w] = wsum[w] + sh]
    /\ wi' = [wi EXCEPT ![w] = wi[w] + 1]
    /\ UNCHANGED <<trials, NCPU, adj, aggPc, aggI, aggSum, ret, wpc, wn, sent>>
    /\ UNCHANGED <<varsEval, varsDist, varsHE>>

\* A worker's exhaustive enumeration, lines 386-400, up to its send.
WorkerExhaustive(w) ==
    /\ wpc[w] = "run" /\ wn[w] = 0
    /\ \E sh \in Shares : wsum' = [wsum EXCEPT ![w] = sh]
    /\ wpc' = [wpc EXCEPT ![w] = "send"]
    /\ UNCHANGED <<trials, NCPU, adj, aggPc, aggI, aggSum, ret, wn, wi, sent>>
    /\ UNCHANGED <<varsEval, varsDist, varsHE>>

\* Line 404 with i = trials: the worker reaches its send, line 409.
WorkerLoopDone(w) ==
    /\ wpc[w] = "run" /\ wn[w] # 0 /\ wi[w] >= wn[w]
    /\ wpc' = [wpc EXCEPT ![w] = "send"]
    /\ UNCHANGED <<trials, NCPU, adj, aggPc, aggI, aggSum, ret, wn, wi, wsum, sent>>
    /\ UNCHANGED <<varsEval, varsDist, varsHE>>

\* The unbuffered channel: a send (line 401 or 409) and the receive of line
\* 422 happen together.
Handoff(w) ==
    /\ wpc[w] = "send"
    /\ aggPc = "collect" /\ aggI < CollectCount
    /\ aggSum' = aggSum + wsum[w]
    /\ aggI' = aggI + 1
    /\ wpc' = [wpc EXCEPT ![w] = "done"]
    /\ sent' = [sent EXCEPT ![w] = sent[w] + 1]
    /\ UNCHANGED <<trials, NCPU, adj, aggPc, ret, wn, wi, wsum>>
    /\ UNCHANGED <<varsEval, varsDist, varsHE>>

\* Lines 421 and 424: the collect loop is left and the mean returned. The
\* workers' means have the denominator 2 * trials/NCPU (2 when exhaustive).
H2Return ==
    /\ aggPc = "collect" /\ aggI >= CollectCount
    /\ ret' = <<aggSum, 2 * (IF adj \div NCPU = 0 THEN 1 ELSE adj \div NCPU) * NCPU>>
    /\ aggPc' = "done"
    /\ UNCHANGED <<trials, NCPU, adj, aggI, aggSum, wpc, wn, wi, wsum, sent>>
    /\ UNCHANGED <<varsEval, varsDist, varsHE>>

NextPar ==
    \/ H2Enter
    \/ H2Spawn
    \/ H2SpawnDone
    \/ \E w \in Workers : WorkerTrial(w)
    \/ \E w \in Workers : WorkerExhaustive(w)
    \/ \E w \in Workers : WorkerLoopDone(w)
    \/ \E w \in Workers : Handoff(w)
    \/ H2Return
SpecPar == InitPar /\ [][NextPar]_vars

(***************************************************************************)
(* Claims about HandEquity2.                                               *)
(***************************************************************************)
\* C2: HandEquity2 adjusts trials to a multiple of NCPU, so that the realized
\* trial count, NCPU times the per-worker share, is never below the requested
\* trials and exceeds it by at most NCPU - 1.
C2_TrialsRoundedUp ==
    aggPc \notin {"call", "idle"} =>
        LET realized == NCPU * (adj \div NCPU)
        IN  /\ adj % NCPU = 0
            /\ realized >= trials
            /\ realized <= trials + NCPU - 1

\* C3: with trials > 0 every worker HandEquity2 launches gets a trial count
\* greater than 0 and so runs in Monte-Carlo mode, never in exhaustive mode.
C3_WorkersMonteCarlo ==
    trials > 0 => \A w \in Workers : wpc[w] # "none" => wn[w] > 0

\* C4: every worker sends exactly one value, the aggregator receives exactly
\* NCPU values, one from each worker, before it returns the mean, and when it
\* returns no worker is left blocked on the channel; before that some step is
\* always possible.
C4_FanInComplete ==
    /\ \A w \in Workers : sent[w] <= 1
    /\ aggPc \in {"spawn", "collect"} => aggI <= NCPU
    /\ aggPc = "done" =>
        /\ aggI = NCPU
        /\ \A w \in Workers : sent[w] = 1 /\ wpc[w] = "done"
    /\ aggPc \notin {"done", "idle"} => ENABLED NextPar

\* Three workers have each run their trials and handed over, and the mean is
\* returned.
C4_Witness ==
    /\ aggPc = "done"
    /\ NCPU = 3
    /\ \A w \in Workers : wpc[w] = "done" /\ sent[w] = 1 /\ wn[w] > 0 /\ wi[w] = wn[w]

=============================================================================
